---- MODULE Spec2Model ----
(***************************************************************************)
(* mcp-confirm: the elicitation protocol engine (sendElicitationRequest),  *)
(* the confirmation log writer (logConfirmation) and the log reader        *)
(* (readLogEntries, searchLogs, handleAnalyzeLogs).                        *)
(*                                                                         *)
(* A transaction is one call of sendElicitationRequest.  Several may be in *)
(* flight at once: each is an async function that suspends at its awaits   *)
(* (the channel call, mkdir, and the open and write calls inside           *)
(* fs.promises.appendFile), and the event loop interleaves the             *)
(* continuations of different transactions at those points.                *)
(***************************************************************************)
EXTENDS Integers, Sequences, FiniteSets, TLC

\* Number of sendElicitationRequest calls of one run.
MaxSends == 2

\* Number of file system calls (mkdir, open, write) that fail in one run.
MaxFaults == 1

\* Number of appendFile calls of one run that need more than one write.
MaxSplitWrites == 1

Txn == 1 .. MaxSends

VARIABLES
    pc,         \* pc[t]: where transaction t stands in sendElicitationRequest
    params,     \* params[t]: the ElicitationParams given to the call
    startTime,  \* startTime[t]: Date.now() at the start of the call
    settled,    \* settled[t]: how the promise of server.request settled
    branch,     \* branch[t]: the try or the catch block of the call
    entry,      \* entry[t]: the ConfirmationLogEntry handed to logConfirmation
    logCalls,   \* logCalls[t]: logConfirmation calls made by the call
    io,         \* io[t]: what mkdir and appendFile did in the current logConfirmation
    written,    \* written[t]: parts of the log line written by the current appendFile
    loggedAt,   \* loggedAt[t]: the clock when logConfirmation settled (0: not yet)
    result,     \* result[t]: what the call gave its caller (return or throw)
    handlers,   \* the channel's response handlers: ids of requests awaiting a reply
    late,       \* late[t]: the reply of a request that timed out, still to arrive
    file,       \* the log file: the chunks written, in the order they took effect
    completed,  \* ids of the transactions in the order their channel calls settled
    now,        \* the clock (Date.now(), new Date()): it advances between settlements
    faults,     \* the mkdir, open and write calls that have failed so far
    splits,     \* the appendFile calls that have needed more than one write so far
    reply,      \* the response of the tool call made in the last step
    env,        \* process.env.MCP_CONFIRM_TIMEOUT_MS when the server starts
    config,     \* this.config, the result of loadConfig
    call,       \* the last elicitation tool call: what its handler gave the channel
    disk,       \* the log file as a reader finds it: absent, or its lines
    args,       \* the arguments of the last search_logs call
    send,       \* the sendElicitationRequest call of the handler of `call`
    tz          \* the time zone of the process: minutes east of UTC

\* The state of the engine and of the log writer.
engineVars == << pc, params, startTime, settled, branch, entry, logCalls, io,
                 written, loggedAt, result, handlers, late, file, completed,
                 now, faults, splits >>

\* The state of the tool handlers and of the reader taken on their own.
toolVars == << env, config, call, send >>
readerVars == << disk, args, tz >>

vars == << engineVars, reply, toolVars, readerVars >>

-----------------------------------------------------------------------------
(* Requests and channel outcomes *)

\* A message is a sequence of text fragments; timeoutMs 0 is a request
\* without timeoutMs.
Requests ==
    { [message |-> << "Please", "Confirm" >>, timeoutMs |-> 30000] }

\* The ElicitResult the channel resolves with.
Outcomes ==
    { [action |-> "accept", content |-> [confirmed |-> TRUE]],
      [action |-> "decline"],
      [action |-> "cancel"] }

\* The messages of the errors the channel rejects with: the request timeout
\* and a transport error.
ErrTimeout == "Request timed out"
ErrTransport == "Connection closed"
ChannelErrors == { ErrTimeout, ErrTransport }

NoParams == [message |-> << >>, timeoutMs |-> 0]
NotSettled == [kind |-> "pending"]
NoEntry == [none |-> TRUE]
NoResult == [kind |-> "none"]
Returned(o) == [kind |-> "return", value |-> o]
Thrown(m) == [kind |-> "throw", message |-> m]
NoReply == [tool |-> "none"]

-----------------------------------------------------------------------------
(* getConfirmationType *)

\* The Japanese keywords of the source, in Latin letters.
JaConfirm == "kakunin"           \* 確認
JaRate == "hyouka"               \* 評価
JaClarify == "meikaku"           \* 明確
JaVerify == "kenshou"            \* 検証
JaYesNo == "hai/iie"             \* はい/いいえ
JaDelete == "sakujo"             \* 削除
JaDestroy == "hakai"             \* 破壊

\* String.prototype.toLowerCase, on one fragment of text.
toLowerCase(fragment) ==
    CASE fragment \in {"Confirm", "CONFIRM"} -> "confirm"
      [] fragment = "Rate" -> "rate"
      [] fragment = "Clarify" -> "clarify"
      [] fragment = "Verify" -> "verify"
      [] fragment = "Yes/No" -> "yes/no"
      [] fragment \in {"Delete", "DELETE"} -> "delete"
      [] fragment = "Removed" -> "removed"
      [] fragment \in {"Warning", "WARNING"} -> "warning"
      [] fragment = "Accept" -> "accept"
      [] fragment = "Timed Out" -> "timed out"
      [] OTHER -> fragment

\* text.includes(keyword), on one fragment of text: the keyword is the
\* fragment or a part of it.
Contains(fragment, keyword) ==
    \/ fragment = keyword
    \/ << fragment, keyword >> \in
          { << "generate", "rate" >>,
            << "removed", "remove" >>,
            << "confirmation", "confirm" >>,
            << "Request timed out", "timed out" >>,
            << "kakunin-shimasu", JaConfirm >> }

\* message.toLowerCase().includes(keyword)
Includes(message, keyword) ==
    \E i \in 1 .. Len(message) : Contains(toLowerCase(message[i]), keyword)

\* Mutation of getConfirmationType: "rate" is looked for before "confirm".
getConfirmationType_RateFirst(p) ==
    IF Includes(p.message, "rate") \/ Includes(p.message, JaRate)
    THEN "rating"
    ELSE IF Includes(p.message, "confirm") \/ Includes(p.message, JaConfirm)
    THEN "confirmation"
    ELSE IF Includes(p.message, "clarify") \/ Includes(p.message, JaClarify)
    THEN "clarification"
    ELSE IF Includes(p.message, "verify") \/ Includes(p.message, JaVerify)
    THEN "verification"
    ELSE IF Includes(p.message, "yes/no") \/ Includes(p.message, JaYesNo)
    THEN "yes_no"
    ELSE "custom"

getConfirmationType(p) ==
    IF Includes(p.message, "confirm") \/ Includes(p.message, JaConfirm)
    THEN "confirmation"
    ELSE IF Includes(p.message, "rate") \/ Includes(p.message, JaRate)
    THEN "rating"
    ELSE IF Includes(p.message, "clarify") \/ Includes(p.message, JaClarify)
    THEN "clarification"
    ELSE IF Includes(p.message, "verify") \/ Includes(p.message, JaVerify)
    THEN "verification"
    ELSE IF Includes(p.message, "yes/no") \/ Includes(p.message, JaYesNo)
    THEN "yes_no"
    ELSE "custom"

-----------------------------------------------------------------------------
(* The entries sendElicitationRequest hands to logConfirmation *)

\* Mutation of SuccessEntry: success is taken from the action of the response.
SuccessEntry_AcceptOnly(p, response, start, clock) ==
    [ timestamp |-> clock,
      confirmationType |-> getConfirmationType(p),
      request |-> p,
      response |-> response,
      responseTimeMs |-> clock - start,
      success |-> (response.action = "accept") ]

\* The entry of the try block: the channel resolved with response.
SuccessEntry(p, response, start, clock) ==
    [ timestamp |-> clock,
      confirmationType |-> getConfirmationType(p),
      request |-> p,
      response |-> response,
      responseTimeMs |-> clock - start,
      success |-> TRUE ]

\* Mutation of FailureEntry: the entry of the catch block is marked as a
\* success.
FailureEntry_MarkedSuccess(p, errorMessage, start, clock) ==
    [ timestamp |-> clock,
      confirmationType |-> getConfirmationType(p),
      request |-> p,
      response |-> [action |-> "cancel"],
      responseTimeMs |-> clock - start,
      success |-> TRUE,
      error |-> errorMessage ]

\* Mutation of FailureEntry: the entry of the catch block carries no error.
FailureEntry_NoError(p, errorMessage, start, clock) ==
    [ timestamp |-> clock,
      confirmationType |-> getConfirmationType(p),
      request |-> p,
      response |-> [action |-> "cancel"],
      responseTimeMs |-> clock - start,
      success |-> FALSE ]

\* The entry of the catch block: the channel rejected with an error whose
\* message is errorMessage.
FailureEntry(p, errorMessage, start, clock) ==
    [ timestamp |-> clock,
      confirmationType |-> getConfirmationType(p),
      request |-> p,
      response |-> [action |-> "cancel"],
      responseTimeMs |-> clock - start,
      success |-> FALSE,
      error |-> errorMessage ]

\* The error the catch block throws to the caller.
ElicitationFailed(errorMessage) == Thrown("Elicitation failed: " \o errorMessage)

-----------------------------------------------------------------------------
(* The channel: server.request and the replies of the client *)

\* Mutation of ResponseHandler: a reply goes to the oldest request that still
\* awaits one (correlation by arrival order).
ResponseHandler_ArrivalOrder(id) ==
    IF handlers = {} THEN 0
    ELSE CHOOSE u \in handlers : \A v \in handlers : u <= v

\* The send whose response handler a reply carrying request id `id` reaches:
\* the channel keeps one handler per request id and removes it when the
\* request times out or fails; 0 when no handler is left for the id.
ResponseHandler(id) == IF id \in handlers THEN id ELSE 0

-----------------------------------------------------------------------------
(* logConfirmation, ensureLogDirectory and fs.promises.appendFile *)

\* Mutation of Bytes: after a write that wrote only part of the line, the
\* loop of appendFile starts again from the beginning of the line.
Bytes_FromStart(t, e, n) ==
    << [txn |-> t, rec |-> e, part |-> 1], [txn |-> t, rec |-> e, part |-> 2] >>

\* The bytes of the log line of entry e, JSON.stringify(e) + "\n", written by
\* transaction t, as two parts: the second ends with the newline.  Bytes(t, e,
\* n) is what is left of the line after its first n parts.
Bytes(t, e, n) ==
    SubSeq(<< [txn |-> t, rec |-> e, part |-> 1],
              [txn |-> t, rec |-> e, part |-> 2] >>, n + 1, 2)

\* Mutation of AppendToFile: the file is opened with flag "w".
AppendToFile_Truncate(f, bytes) == bytes

\* The file after one write call on a descriptor opened with flag "a": the
\* bytes of the call go to the end of the file.
AppendToFile(f, bytes) == f \o bytes

\* Mutation of LogConfirmationOutcome: the catch block throws the error again.
LogConfirmationOutcome_Rethrows(caught) == IF caught THEN "throws" ELSE "returns"

\* What logConfirmation does to its caller when an error of appendFile (or of
\* ensureLogDirectory) reached its catch block: the block logs the error and
\* the function returns normally.
LogConfirmationOutcome(caught) == "returns"

\* What ensureLogDirectory does to logConfirmation when mkdir failed: its
\* catch block logs the error and the function returns normally.
EnsureLogDirectoryOutcome(mkdirFailed) == "returns"

ErrIO == "EACCES: permission denied"
NoIO == [mkdir |-> "none", append |-> "none"]

-----------------------------------------------------------------------------
(* readLogEntries *)

RECURSIVE SplitLines(_, _)
\* f cut at the newlines: `cur` is the line read so far.
SplitLines(f, cur) ==
    IF f = << >> THEN (IF cur = << >> THEN << >> ELSE << cur >>)
    ELSE IF Head(f).part = 2
         THEN << Append(cur, Head(f)) >> \o SplitLines(Tail(f), << >>)
         ELSE SplitLines(Tail(f), Append(cur, Head(f)))

Lines(f) == SplitLines(f, << >>)

\* JSON.parse(line) succeeds iff the line is the whole text of one record.
Parses(line) ==
    /\ Len(line) = 2
    /\ line[1].part = 1
    /\ line[2].part = 2
    /\ line[2].txn = line[1].txn
    /\ line[2].rec = line[1].rec

\* A log file: it does not exist (readFile fails with ENOENT), or it holds
\* the bytes of `content`.
NoDisk == [exists |-> FALSE, content |-> << >>]
OnDisk(f) == [exists |-> TRUE, content |-> f]

\* Mutation of readLogEntries: the lines that do not parse are skipped.
readLogEntries_SkipMalformed(d) ==
    LET ls == SelectSeq(Lines(d.content), Parses) IN
    [ok |-> TRUE, entries |-> [i \in 1 .. Len(ls) |-> ls[i][1].rec]]

\* The entries read; a line that does not parse makes JSON.parse throw, and
\* no entries are returned; a file that does not exist is read as no entries.
readLogEntries(d) ==
    LET ls == Lines(d.content) IN
    IF ~d.exists THEN [ok |-> TRUE, entries |-> << >>]
    ELSE IF \A i \in 1 .. Len(ls) : Parses(ls[i])
    THEN [ok |-> TRUE, entries |-> [i \in 1 .. Len(ls) |-> ls[i][1].rec]]
    ELSE [ok |-> FALSE, entries |-> << >>]

-----------------------------------------------------------------------------
(* The arguments of search_logs and analyze_logs *)

\* An optional argument: undefined, or a value.
None == [given |-> FALSE]
Some(v) == [given |-> TRUE, value |-> v]

\* A date is the time it denotes (new Date(text).getTime()).
NoArgs ==
    [ keyword |-> None, confirmationType |-> None, startDate |-> None,
      endDate |-> None, success |-> None, timedOut |-> None,
      minResponseTime |-> None, maxResponseTime |-> None,
      page |-> None, pageSize |-> None ]

-----------------------------------------------------------------------------
(* filterLogEntries *)

\* JSON.stringify(entry.response), as fragments of text.
StringifyResponse(r) ==
    << "action", r.action >> \o
    (IF "content" \in DOMAIN r THEN << "content", "confirmed", "true" >> ELSE << >>)

matchesKeyword(e, keyword) ==
    \/ ~keyword.given
    \/ Includes(e.request.message \o StringifyResponse(e.response),
                toLowerCase(keyword.value))

matchesType(e, type) == ~type.given \/ e.confirmationType = type.value

matchesDateRange(e, startDate, endDate) ==
    IF startDate.given /\ e.timestamp < startDate.value THEN FALSE
    ELSE IF endDate.given /\ e.timestamp > endDate.value THEN FALSE
    ELSE TRUE

matchesSuccess(e, success) == ~success.given \/ e.success = success.value

\* Mutation of isTimedOut: every entry with an error counts as timed out.
isTimedOut_AnyError(e) == "error" \in DOMAIN e

\* entry.error?.includes("timed out") || false
isTimedOut(e) == "error" \in DOMAIN e /\ Contains(e.error, "timed out")

matchesTimeout(e, timedOut) == ~timedOut.given \/ isTimedOut(e) = timedOut.value

matchesResponseTime(e, minTime, maxTime) ==
    IF minTime.given /\ e.responseTimeMs < minTime.value THEN FALSE
    ELSE IF maxTime.given /\ e.responseTimeMs > maxTime.value THEN FALSE
    ELSE TRUE

Passes(e, a) ==
    /\ matchesKeyword(e, a.keyword)
    /\ matchesType(e, a.confirmationType)
    /\ matchesDateRange(e, a.startDate, a.endDate)
    /\ matchesSuccess(e, a.success)
    /\ matchesTimeout(e, a.timedOut)
    /\ matchesResponseTime(e, a.minResponseTime, a.maxResponseTime)

\* Mutation of filterLogEntries: an entry passes when it matches the success
\* filter or all the others.
filterLogEntries_Or(entries, a) ==
    SelectSeq(entries, LAMBDA e :
        \/ a.success.given /\ matchesSuccess(e, a.success)
        \/ /\ matchesKeyword(e, a.keyword)
           /\ matchesType(e, a.confirmationType)
           /\ matchesDateRange(e, a.startDate, a.endDate)
           /\ matchesTimeout(e, a.timedOut)
           /\ matchesResponseTime(e, a.minResponseTime, a.maxResponseTime))

filterLogEntries(entries, a) == SelectSeq(entries, LAMBDA e : Passes(e, a))

-----------------------------------------------------------------------------
(* searchLogs and handleSearchLogs *)

RECURSIVE InsertByTimestamp_Unstable(_, _)
\* Mutation of InsertByTimestamp: e goes before the entries of its own
\* timestamp (a sort that is not stable).
InsertByTimestamp_Unstable(s, e) ==
    IF s = << >> THEN << e >>
    ELSE IF Head(s).timestamp > e.timestamp
         THEN << Head(s) >> \o InsertByTimestamp_Unstable(Tail(s), e)
         ELSE << e >> \o s

RECURSIVE InsertByTimestamp(_, _)
\* e put into the sequence s, sorted by timestamp descending, behind the
\* entries of s that do not sort after it (Array.prototype.sort is stable).
InsertByTimestamp(s, e) ==
    IF s = << >> THEN << e >>
    ELSE IF Head(s).timestamp >= e.timestamp
         THEN << Head(s) >> \o InsertByTimestamp(Tail(s), e)
         ELSE << e >> \o s

RECURSIVE SortNewestFirst(_)
SortNewestFirst(s) ==
    IF s = << >> THEN << >>
    ELSE InsertByTimestamp(SortNewestFirst(SubSeq(s, 1, Len(s) - 1)), s[Len(s)])

\* Math.ceil(n / d) for integers n >= 0 and d # 0.
Ceil(n, d) == IF d > 0 THEN (n + d - 1) \div d ELSE 0 - (n \div (0 - d))

\* The index Array.prototype.slice takes for the argument k.
SliceIndex(k, len) ==
    IF k < 0 THEN (IF len + k < 0 THEN 0 ELSE len + k)
    ELSE (IF k > len THEN len ELSE k)

\* s.slice(start, end), with the indices of JavaScript (from 0).
Slice(s, start, end) ==
    SubSeq(s, SliceIndex(start, Len(s)) + 1, SliceIndex(end, Len(s)))

\* The LogSearchResult of searchLogs for the entries read and the
\* LogSearchParams with page and pageSize.
searchLogs(entries, a, pageParam, pageSizeParam) ==
    LET sorted == SortNewestFirst(filterLogEntries(entries, a))
        page == IF pageParam = 0 THEN 1 ELSE pageParam
        pageSize == IF pageSizeParam = 0 THEN 10 ELSE pageSizeParam
        totalCount == Len(sorted)
        startIndex == (page - 1) * pageSize
    IN  [ entries |-> Slice(sorted, startIndex, startIndex + pageSize),
          totalCount |-> totalCount,
          currentPage |-> page,
          totalPages |-> Ceil(totalCount, pageSize),
          pageSize |-> pageSize ]

\* The response of search_logs: the result of searchLogs, or an error when
\* the log could not be read.
handleSearchLogs(d, a) ==
    LET read == readLogEntries(d)
        page == IF a.page.given THEN a.page.value ELSE 1
        pageSize == IF a.pageSize.given
                    THEN (IF a.pageSize.value < 100 THEN a.pageSize.value ELSE 100)
                    ELSE 10
        found == searchLogs(read.entries, a, page, pageSize)
    IN
    IF read.ok
    THEN [tool |-> "search_logs", isError |-> FALSE,
          entries |-> found.entries, totalCount |-> found.totalCount,
          currentPage |-> found.currentPage, totalPages |-> found.totalPages,
          pageSize |-> found.pageSize]
    ELSE [tool |-> "search_logs", isError |-> TRUE,
          entries |-> << >>, totalCount |-> 0,
          currentPage |-> 0, totalPages |-> 0, pageSize |-> 0]

-----------------------------------------------------------------------------
(* handleAnalyzeLogs *)

filterByDateRange(entries, startDate, endDate) ==
    SelectSeq(entries, LAMBDA e :
        /\ startDate.given => e.timestamp >= startDate.value
        /\ endDate.given => e.timestamp <= endDate.value)

\* A number of JavaScript, as far as timeouts and averages go: an integer
\* or NaN.
Num(n) == [nan |-> FALSE, n |-> n]
NaN == [nan |-> TRUE, n |-> 0]

\* n / d as it is shown (to the nearest whole number), for integers n >= 0
\* and d >= 0: 0 / 0 is NaN.
Quotient(n, d) == IF d = 0 THEN NaN ELSE Num((2 * n + d) \div (2 * d))

RECURSIVE SumOfResponseTimes(_)
\* entries.reduce((sum, e) => sum + e.responseTimeMs, 0)
SumOfResponseTimes(entries) ==
    IF entries = << >> THEN 0
    ELSE Head(entries).responseTimeMs + SumOfResponseTimes(Tail(entries))

\* Math.max and Math.min of the response times of at least one entry.
MaxResponseTime(entries) ==
    CHOOSE x \in { entries[i].responseTimeMs : i \in 1 .. Len(entries) } :
        \A i \in 1 .. Len(entries) : entries[i].responseTimeMs <= x
MinResponseTime(entries) ==
    CHOOSE x \in { entries[i].responseTimeMs : i \in 1 .. Len(entries) } :
        \A i \in 1 .. Len(entries) : entries[i].responseTimeMs >= x

\* Mutation of calculateBasicStats: the average is taken without looking at
\* the number of entries.
calculateBasicStats_NoGuard(entries) ==
    LET n == Len(entries)
        ok == Cardinality({i \in 1 .. n : entries[i].success})
    IN  [ total |-> n, successCount |-> ok, failureCount |-> n - ok,
          timedOutCount |-> Cardinality({i \in 1 .. n : isTimedOut(entries[i])}),
          avgResponseTime |-> Quotient(SumOfResponseTimes(entries), n),
          maxResponseTime |-> IF n > 0 THEN MaxResponseTime(entries) ELSE 0,
          minResponseTime |-> IF n > 0 THEN MinResponseTime(entries) ELSE 0 ]

\* The counts and the response times of calculateBasicStats.
calculateBasicStats(entries) ==
    LET n == Len(entries)
        ok == Cardinality({i \in 1 .. n : entries[i].success})
    IN  [ total |-> n, successCount |-> ok, failureCount |-> n - ok,
          timedOutCount |-> Cardinality({i \in 1 .. n : isTimedOut(entries[i])}),
          avgResponseTime |-> IF n > 0
                              THEN Quotient(SumOfResponseTimes(entries), n)
                              ELSE Num(0),
          maxResponseTime |-> IF n > 0 THEN MaxResponseTime(entries) ELSE 0,
          minResponseTime |-> IF n > 0 THEN MinResponseTime(entries) ELSE 0 ]

\* The instant the timestamp ts stands for, in minutes from 00:00 UTC of the
\* day the log begins on: 09:45, 10:15 and 10:45 of that day, then 00:15 of
\* the next day and every hour from then on.
Instant(ts) == IF ts <= 2 THEN 585 + 30 * ts ELSE 1455 + 60 * (ts - 3)

\* new Date(timestamp).getHours(): the hour of the day in the time zone of
\* the process, `zone` minutes east of UTC.
getHours(ts, zone) == ((Instant(ts) + zone) \div 60) % 24

\* hours.toString().padStart(2, "0") + ":00"
HourLabel(h) ==
    << "00", "01", "02", "03", "04", "05", "06", "07", "08", "09", "10", "11",
       "12", "13", "14", "15", "16", "17", "18", "19", "20", "21", "22",
       "23" >>[h + 1] \o ":00"

\* new Date(timestamp).toISOString().split("T")[0]: the date in UTC.
DayLabel(ts) ==
    CASE Instant(ts) \div 1440 = 0 -> "2025-01-01"
      [] Instant(ts) \div 1440 = 1 -> "2025-01-02"
      [] OTHER -> "2025-01-03"

\* The key of the group of entry e (the switch of groupLogsByField).
GroupKey(e, field, zone) ==
    CASE field = "confirmationType" -> e.confirmationType
      [] field = "success" -> (IF e.success THEN "Success" ELSE "Failed")
      [] field = "hour" -> HourLabel(getHours(e.timestamp, zone))
      [] field = "day" -> DayLabel(e.timestamp)
      [] OTHER -> "Unknown"

\* No group: the object {}.
NoGroups == [key \in {} |-> << >>]

RECURSIVE groupLogsByField_Overwrite(_, _, _)
\* Mutation of groupLogsByField: the group of a key is begun again with each
\* entry of the key.
groupLogsByField_Overwrite(entries, field, zone) ==
    IF entries = << >> THEN NoGroups
    ELSE LET e == entries[Len(entries)]
             groups == groupLogsByField_Overwrite(
                           SubSeq(entries, 1, Len(entries) - 1), field, zone)
             key == GroupKey(e, field, zone)
         IN  [k \in DOMAIN groups \cup {key} |->
                 IF k = key THEN << e >> ELSE groups[k]]

RECURSIVE groupLogsByField(_, _, _)
\* The groups after the loop over the entries: each entry is pushed to the
\* group of its key, which is created with the first entry of the key.
groupLogsByField(entries, field, zone) ==
    IF entries = << >> THEN NoGroups
    ELSE LET e == entries[Len(entries)]
             groups == groupLogsByField(
                           SubSeq(entries, 1, Len(entries) - 1), field, zone)
             key == GroupKey(e, field, zone)
         IN  [k \in DOMAIN groups \cup {key} |->
                 IF k = key
                 THEN (IF key \in DOMAIN groups
                       THEN Append(groups[key], e) ELSE << e >>)
                 ELSE groups[k]]

\* The line of formatGroupAnalysis for each group: the number of entries,
\* the success rate (in tenths of a percent) and the average response time.
formatGroupAnalysis(groups) ==
    [ key \in DOMAIN groups |->
        LET count == Len(groups[key])
            ok == Cardinality({i \in 1 .. count : groups[key][i].success})
        IN  [ count |-> count,
              successRate |-> Quotient(1000 * ok, count),
              avgTime |-> Quotient(SumOfResponseTimes(groups[key]), count) ] ]

\* The response of analyze_logs for the arguments a and groupBy, in the time
\* zone `zone`: the statistics and the breakdown, or an error when the log
\* could not be read.
handleAnalyzeLogs(d, a, groupByArg, zone) ==
    LET groupBy == IF groupByArg.given THEN groupByArg.value ELSE "confirmationType"
        read == readLogEntries(d)
        filteredEntries == filterByDateRange(read.entries, a.startDate, a.endDate)
        stats == calculateBasicStats(filteredEntries)
    IN
    IF read.ok
    THEN [tool |-> "analyze_logs", isError |-> FALSE,
          total |-> stats.total, successCount |-> stats.successCount,
          failureCount |-> stats.failureCount,
          timedOutCount |-> stats.timedOutCount,
          avgResponseTime |-> stats.avgResponseTime,
          minResponseTime |-> stats.minResponseTime,
          maxResponseTime |-> stats.maxResponseTime,
          groupBy |-> groupBy,
          groups |-> formatGroupAnalysis(
                        groupLogsByField(filteredEntries, groupBy, zone))]
    ELSE [tool |-> "analyze_logs", isError |-> TRUE,
          total |-> 0, successCount |-> 0, failureCount |-> 0,
          timedOutCount |-> 0]

-----------------------------------------------------------------------------
(* loadConfig and the timeout a request is sent with *)

\* x || y, for a number x: y when x is 0 or NaN.
OrElse(x, y) == IF x.nan \/ x.n = 0 THEN y ELSE x

\* A string is the sequence of its characters.
DigitChars == << "0", "1", "2", "3", "4", "5", "6", "7", "8", "9" >>
IsDigit(c) == \E d \in 1 .. 10 : DigitChars[d] = c
DigitValue(c) == (CHOOSE d \in 1 .. 10 : DigitChars[d] = c) - 1

RECURSIVE String(_)
\* String(n), for an integer n >= 0: its decimal digits.
String(n) ==
    IF n < 10 THEN << DigitChars[n + 1] >>
    ELSE String(n \div 10) \o << DigitChars[(n % 10) + 1] >>

RECURSIVE SkipWhiteSpace(_)
SkipWhiteSpace(cs) ==
    IF cs # << >> /\ Head(cs) = " " THEN SkipWhiteSpace(Tail(cs)) ELSE cs

RECURSIVE ParseDigits(_, _, _)
\* The value of the digits cs starts with, after the digits read so far.
ParseDigits(cs, acc, any) ==
    IF cs = << >> \/ ~IsDigit(Head(cs))
    THEN [any |-> any, n |-> acc]
    ELSE ParseDigits(Tail(cs), acc * 10 + DigitValue(Head(cs)), TRUE)

\* parseInt(cs, 10): leading white space is skipped, a sign is read, then
\* the digits up to the first character that is not one; NaN without digits.
parseInt(cs) ==
    LET t == SkipWhiteSpace(cs)
        signed == t # << >> /\ Head(t) \in {"-", "+"}
        d == ParseDigits(IF signed THEN Tail(t) ELSE t, 0, FALSE)
    IN  IF ~d.any THEN NaN
        ELSE IF signed /\ Head(t) = "-" THEN Num(0 - d.n)
        ELSE Num(d.n)

\* defaultConfig.defaultTimeoutMs
DefaultTimeoutMs == 60000

\* process.env.MCP_CONFIRM_TIMEOUT_MS: not set, or set to a string.
EnvUnset == [set |-> FALSE, value |-> << >>]
EnvSet(cs) == [set |-> TRUE, value |-> cs]

\* loadConfig: the timeout is parseInt of the variable, or of the text of the
\* built-in default when the variable is not set or empty.
loadConfig(e) ==
    [ defaultTimeoutMs |->
        parseInt(IF e.set /\ e.value # << >>
                 THEN e.value
                 ELSE String(DefaultTimeoutMs)) ]

NotLoaded == [defaultTimeoutMs |-> NaN, loaded |-> FALSE]

\* An optional string argument of a tool: absent (or not a string), or a text.
Absent == [given |-> FALSE, text |-> << >>]
Given(text) == [given |-> TRUE, text |-> text]

\* Mutation of determineTimeoutForAction: the warning keyword is looked for
\* before the destructive ones.
determineTimeoutForAction_WarningFirst(impact, cfg) ==
    IF ~impact.given \/ impact.text = << >> THEN cfg.defaultTimeoutMs
    ELSE IF Includes(impact.text, "warning") THEN Num(90000)
    ELSE IF \/ Includes(impact.text, "delete")
            \/ Includes(impact.text, "remove")
            \/ Includes(impact.text, JaDelete)
            \/ Includes(impact.text, JaDestroy)
         THEN Num(120000)
    ELSE cfg.defaultTimeoutMs

\* determineTimeoutForAction(impact), with this.config = cfg.
determineTimeoutForAction(impact, cfg) ==
    IF ~impact.given \/ impact.text = << >> THEN cfg.defaultTimeoutMs
    ELSE IF \/ Includes(impact.text, "delete")
            \/ Includes(impact.text, "remove")
            \/ Includes(impact.text, JaDelete)
            \/ Includes(impact.text, JaDestroy)
         THEN Num(120000)
    ELSE IF Includes(impact.text, "warning") THEN Num(90000)
    ELSE cfg.defaultTimeoutMs

\* sendElicitationRequest: params.timeoutMs || this.config.defaultTimeoutMs,
\* the timeout option of server.request.
RequestTimeout(p, cfg) ==
    IF "timeoutMs" \in DOMAIN p
    THEN OrElse(p.timeoutMs, cfg.defaultTimeoutMs)
    ELSE cfg.defaultTimeoutMs

\* An ElicitationSchema, as far as its field names go: the keys of
\* `properties` and the names listed in `required` (none when the schema has
\* no such key).
Schema(properties, required) == [properties |-> properties, required |-> required]

\* The schema argument of elicit_custom: not an object, or the object given.
NoSchema == [given |-> FALSE]
SchemaGiven(schema) == [given |-> TRUE, schema |-> schema]

\* The ElicitationParams the handlers of the tools build.
ConfirmActionParams(action, impact, cfg) ==
    [ message |-> << "Please", "confirm", "this", "action:" >> \o action
                    \o (IF impact.given /\ impact.text # << >>
                        THEN << "Impact:" >> \o impact.text ELSE << >>)
                    \o << "Do", "you", "want", "to", "proceed?" >>,
      requestedSchema |-> Schema({"confirmed", "note"}, {"confirmed"}),
      timeoutMs |-> determineTimeoutForAction(impact, cfg) ]

\* options is the array given, if any; with a non-empty array the schema
\* gets the property selected_option.
ClarifyIntentParams(options) ==
    [ message |-> << "I", "need", "to", "clarify", "your", "intent:",
                     "Unknown request", "Unknown ambiguity" >>
                    \o (IF options.given /\ options.text # << >>
                        THEN << "Options:" >> \o options.text ELSE << >>),
      requestedSchema |->
          Schema({"clarification"} \cup
                 (IF options.given /\ options.text # << >>
                  THEN {"selected_option"} ELSE {}),
                 {"clarification"}) ]

VerifyUnderstandingParams(understanding) ==
    [ message |-> << "Please", "verify", "my", "understanding:" >> \o
                  (IF understanding.given THEN understanding.text
                   ELSE << "Unknown understanding" >>),
      requestedSchema |->
          Schema({"understanding_correct", "corrections", "proceed"},
                 {"understanding_correct"}) ]

AskYesNoParams(question) ==
    [ message |-> IF question.given THEN question.text
                  ELSE << "Please", "answer", "yes", "or", "no" >>,
      requestedSchema |-> Schema({"answer"}, {"answer"}),
      timeoutMs |-> Num(30000) ]

CollectRatingParams(subject) ==
    [ message |-> << "Please", "rate" >> \o
                  (IF subject.given THEN subject.text ELSE << "this", "item" >>),
      requestedSchema |-> Schema({"rating", "comment"}, {"rating"}),
      timeoutMs |-> Num(20000) ]

\* The schema of the caller is handed on as it is; without one the schema
\* has no properties and no required names.
ElicitCustomParams(message, schema) ==
    [ message |-> IF message.given THEN message.text
                  ELSE << "Please", "provide", "input" >>,
      requestedSchema |-> IF schema.given THEN schema.schema ELSE Schema({}, {}) ]

NoCall == [tool |-> "none", pending |-> FALSE]

\* A tools/call request that has arrived: the tool and its text argument.
ToolRequest(tool, input) == [tool |-> tool, input |-> input, pending |-> TRUE]

\* What the handler of a tool call gives to sendElicitationRequest and what
\* that gives to the channel and to the log.
ToolCall(tool, input, p, cfg) ==
    [ tool |-> tool,
      input |-> input,
      pending |-> FALSE,
      params |-> p,
      timeout |-> RequestTimeout(p, cfg),
      confirmationType |-> getConfirmationType(p) ]

\* A tools/call request of elicit_custom: the message and the schema.
CustomRequest(message, schema) ==
    [tool |-> "elicit_custom", input |-> message, schema |-> schema,
     pending |-> TRUE]

-----------------------------------------------------------------------------
(* What the handlers of the tools answer *)

\* The values a field of response.content can have: a boolean or a string
\* (ElicitResultSchema does not check the content against requestedSchema);
\* a field the content does not have is undefined.
Undefined == [type |-> "undefined"]
Bool(b) == [type |-> "boolean", b |-> b]
Str(text) == [type |-> "string", text |-> text]

\* content[key]
Get(content, key) == IF key \in DOMAIN content THEN content[key] ELSE Undefined

\* The value taken as a condition (v ? a : b).
Truthy(v) ==
    CASE v.type = "boolean" -> v.b
      [] v.type = "string" -> v.text # ""
      [] OTHER -> FALSE

\* The value inside a template literal.
ToText(v) ==
    CASE v.type = "boolean" -> (IF v.b THEN "true" ELSE "false")
      [] v.type = "string" -> v.text
      [] OTHER -> "undefined"

\* The results of the channel, as a tool handler sees them.
Accept(content) == [action |-> "accept", content |-> content]
AcceptWithoutContent == [action |-> "accept"]
Decline == [action |-> "decline"]
Cancel == [action |-> "cancel"]

\* response.content as a condition: an object, the empty one too, is truthy.
HasContent(o) == "content" \in DOMAIN o

\* JSON.stringify(response.content, null, 2), as fragments of text.
StringifyContent(o) ==
    IF ~HasContent(o) THEN << "undefined" >>
    ELSE (IF "confirmed" \in DOMAIN o.content
          THEN << "confirmed", ToText(o.content.confirmed) >> ELSE << >>) \o
         (IF "note" \in DOMAIN o.content
          THEN << "note", ToText(o.content.note) >> ELSE << >>)

\* Mutation of createErrorResponse: the response does not set isError.
createErrorResponse_NoFlag(tool, text) ==
    [tool |-> tool, isError |-> FALSE, text |-> text]

\* A text is a sequence of fragments.
createErrorResponse(tool, text) ==
    [tool |-> tool, isError |-> TRUE, text |-> text]

\* A response without isError.
TextResponse(tool, text) == [tool |-> tool, isError |-> FALSE, text |-> text]

\* `User ${response.action}ed ...`
UserEnded(o, what) == << "User " \o o.action \o "ed", what >>

\* handleConfirmAction, from the await of sendElicitationRequest on: r is
\* what the call returned or threw.
ConfirmActionReply(r) ==
    IF r.kind = "throw"
    THEN createErrorResponse("confirm_action",
                             << "Confirmation request failed:", r.message >>)
    ELSE IF r.value.action = "accept" /\ HasContent(r.value)
    THEN LET confirmed == Get(r.value.content, "confirmed")
             note == Get(r.value.content, "note")
         IN  TextResponse("confirm_action",
                 << IF Truthy(confirmed) THEN "User confirmed" ELSE "User declined",
                    "the action." >> \o
                 (IF Truthy(note) THEN << "Note:", ToText(note) >> ELSE << >>))
    ELSE TextResponse("confirm_action",
                      UserEnded(r.value, "the confirmation request."))

ClarifyIntentReply(r) ==
    IF r.kind = "throw"
    THEN createErrorResponse("clarify_intent",
                             << "Clarification request failed:", r.message >>)
    ELSE IF r.value.action = "accept"
    THEN TextResponse("clarify_intent",
                      << "User clarification:" >> \o StringifyContent(r.value))
    ELSE TextResponse("clarify_intent",
                      UserEnded(r.value, "the clarification request."))

VerifyUnderstandingReply(r) ==
    IF r.kind = "throw"
    THEN createErrorResponse("verify_understanding",
                             << "Understanding verification failed:", r.message >>)
    ELSE IF r.value.action = "accept"
    THEN TextResponse("verify_understanding",
                      << "Understanding verification result:" >> \o
                      StringifyContent(r.value))
    ELSE TextResponse("verify_understanding",
                      UserEnded(r.value, "the understanding verification."))

ElicitCustomReply(r) ==
    IF r.kind = "throw"
    THEN createErrorResponse("elicit_custom",
                             << "Custom elicitation failed:", r.message >>)
    ELSE IF r.value.action = "accept"
    THEN TextResponse("elicit_custom",
                      << "Custom elicitation completed:" >> \o
                      StringifyContent(r.value))
    ELSE TextResponse("elicit_custom",
                      UserEnded(r.value, "the custom elicitation."))

AskYesNoReply(r) ==
    IF r.kind = "throw"
    THEN createErrorResponse("ask_yes_no",
                             << "Elicitation request failed:", r.message >>)
    ELSE IF r.value.action = "accept" /\ HasContent(r.value)
    THEN TextResponse("ask_yes_no",
                      << "User answered:",
                         IF Truthy(Get(r.value.content, "answer"))
                         THEN "Yes" ELSE "No" >>)
    ELSE TextResponse("ask_yes_no", UserEnded(r.value, "the question."))

CollectRatingReply(subject, r) ==
    IF r.kind = "throw"
    THEN createErrorResponse("collect_rating",
                             << "Rating collection failed:", r.message >>)
    ELSE IF r.value.action = "accept" /\ HasContent(r.value)
    THEN LET comment == Get(r.value.content, "comment") IN
         TextResponse("collect_rating",
             << "User rating for" >> \o
             (IF subject.given THEN subject.text ELSE << "this", "item" >>) \o
             << ToText(Get(r.value.content, "rating")), "/10" >> \o
             (IF Truthy(comment) THEN << "Comment:", ToText(comment) >> ELSE << >>))
    ELSE TextResponse("collect_rating", UserEnded(r.value, "the rating request."))

\* The answer of the handler of the call c to the result r of its send.
HandlerReply(c, r) ==
    CASE c.tool = "confirm_action" -> ConfirmActionReply(r)
      [] c.tool = "clarify_intent" -> ClarifyIntentReply(r)
      [] c.tool = "verify_understanding" -> VerifyUnderstandingReply(r)
      [] c.tool = "elicit_custom" -> ElicitCustomReply(r)
      [] c.tool = "ask_yes_no" -> AskYesNoReply(r)
      [] c.tool = "collect_rating" -> CollectRatingReply(c.input, r)

\* The sendElicitationRequest call of a handler: the calls the handler has
\* made, the server.request calls they have made, and how the last one ended.
NoSend == [calls |-> 0, requests |-> 0, state |-> "none"]

-----------------------------------------------------------------------------
(* The state after construction *)

\* The engine and the log writer before the first call.
EngineInit ==
    /\ pc = [t \in Txn |-> "idle"]
    /\ params = [t \in Txn |-> NoParams]
    /\ startTime = [t \in Txn |-> 0]
    /\ settled = [t \in Txn |-> NotSettled]
    /\ branch = [t \in Txn |-> [block |-> "none"]]
    /\ entry = [t \in Txn |-> NoEntry]
    /\ logCalls = [t \in Txn |-> 0]
    /\ io = [t \in Txn |-> NoIO]
    /\ written = [t \in Txn |-> 0]
    /\ loggedAt = [t \in Txn |-> 0]
    /\ result = [t \in Txn |-> NoResult]
    /\ handlers = {}
    /\ late = [t \in Txn |-> "none"]
    /\ file = << >>
    /\ completed = << >>
    /\ now = 0
    /\ faults = 0
    /\ splits = 0
    /\ reply = NoReply

\* The constructor has loaded the configuration; no tool has been called.
Init ==
    /\ EngineInit
    /\ env = EnvUnset
    /\ config = loadConfig(env)
    /\ call = NoCall
    /\ send = NoSend
    /\ disk = NoDisk
    /\ args = NoArgs
    /\ tz = 0

-----------------------------------------------------------------------------
(* sendElicitationRequest *)

\* The call starts: it takes the start time and calls server.request, which
\* registers the response handler of the new request id, and awaits it.
StartSend(t, p) ==
    /\ pc[t] = "idle"
    /\ \A u \in Txn : u < t => pc[u] # "idle"
    /\ pc' = [pc EXCEPT ![t] = "awaiting"]
    /\ params' = [params EXCEPT ![t] = p]
    /\ startTime' = [startTime EXCEPT ![t] = now]
    /\ handlers' = handlers \cup {t}
    /\ reply' = NoReply
    /\ UNCHANGED << toolVars, readerVars >>
    /\ UNCHANGED << settled, branch, entry, logCalls, io, written, loggedAt,
                    result, late, file, completed, now, faults, splits >>

\* logConfirmation(e) is called by transaction t: it runs to its first await,
\* the mkdir of ensureLogDirectory.
CallLogConfirmation(t, e) ==
    /\ entry' = [entry EXCEPT ![t] = e]
    /\ logCalls' = [logCalls EXCEPT ![t] = @ + 1]
    /\ io' = [io EXCEPT ![t] = NoIO]
    /\ written' = [written EXCEPT ![t] = 0]
    /\ pc' = [pc EXCEPT ![t] = "mkdir"]

\* The try block of transaction u resumes with the response o; the reply
\* carried the request id `id`.
Deliver(u, id, o) ==
    /\ pc[u] = "awaiting"
    /\ settled' = [settled EXCEPT ![u] = [kind |-> "resolved", response |-> o, id |-> id]]
    /\ branch' = [branch EXCEPT ![u] = [block |-> "try"]]
    /\ handlers' = handlers \ {u}
    /\ completed' = Append(completed, u)
    /\ CallLogConfirmation(u, SuccessEntry(params[u], o, startTime[u], now + 1))
    /\ now' = now + 1
    /\ UNCHANGED << params, startTime, loggedAt, result, file, faults, splits >>

\* The client answers request t in time.
ChannelResolve(t, o) ==
    /\ pc[t] = "awaiting"
    /\ ResponseHandler(t) # 0
    /\ Deliver(ResponseHandler(t), t, o)
    /\ reply' = NoReply
    /\ UNCHANGED << toolVars, readerVars >>
    /\ UNCHANGED late

\* Mutation of ChannelReject: the catch block throws without logging.
ChannelReject_NoLog(t, m) ==
    /\ pc[t] = "awaiting"
    /\ t \in handlers
    /\ settled' = [settled EXCEPT ![t] = [kind |-> "rejected", error |-> m, id |-> t]]
    /\ branch' = [branch EXCEPT ![t] = [block |-> "catch", error |-> m]]
    /\ handlers' = handlers \ {t}
    /\ completed' = Append(completed, t)
    /\ late' = [late EXCEPT ![t] = IF m = ErrTimeout THEN "inflight" ELSE @]
    /\ pc' = [pc EXCEPT ![t] = "return"]
    /\ now' = now + 1
    /\ reply' = NoReply
    /\ UNCHANGED << toolVars, readerVars >>
    /\ UNCHANGED << params, startTime, entry, logCalls, io, written, loggedAt,
                    result, file, faults, splits >>

\* server.request rejects: the request timed out or the transport failed.
\* The channel drops the handler of the request, and the catch block runs.
ChannelReject(t, m) ==
    /\ pc[t] = "awaiting"
    /\ t \in handlers
    /\ settled' = [settled EXCEPT ![t] = [kind |-> "rejected", error |-> m, id |-> t]]
    /\ branch' = [branch EXCEPT ![t] = [block |-> "catch", error |-> m]]
    /\ handlers' = handlers \ {t}
    /\ completed' = Append(completed, t)
    /\ late' = [late EXCEPT ![t] = IF m = ErrTimeout THEN "inflight" ELSE @]
    /\ CallLogConfirmation(t, FailureEntry(params[t], m, startTime[t], now + 1))
    /\ now' = now + 1
    /\ reply' = NoReply
    /\ UNCHANGED << toolVars, readerVars >>
    /\ UNCHANGED << params, startTime, loggedAt, result, file, faults, splits >>

\* The client answers request t after the request has timed out.
LateReply(t, o) ==
    /\ late[t] = "inflight"
    /\ late' = [late EXCEPT ![t] = "arrived"]
    /\ reply' = NoReply
    /\ UNCHANGED << toolVars, readerVars >>
    /\ IF ResponseHandler(t) = 0
       THEN UNCHANGED << pc, params, startTime, settled, branch, entry, logCalls,
                         io, written, loggedAt, result, handlers, file, completed,
                         now, faults, splits >>
       ELSE Deliver(ResponseHandler(t), t, o)

-----------------------------------------------------------------------------
(* logConfirmation, one step per await *)

\* logConfirmation of transaction t settles, mkdir and appendFile having done
\* ioNow, and the await of sendElicitationRequest resumes.  `caught` says
\* that an error reached the catch block of logConfirmation.  Normally the
\* call goes on to its return or throw statement; were logConfirmation to
\* throw, the try block would pass the error to the catch block, and the
\* catch block would pass it to the caller.
FinishLog(t, caught, ioNow, writtenNow) ==
    IF LogConfirmationOutcome(caught) = "returns"
    THEN /\ pc' = [pc EXCEPT ![t] = "return"]
         /\ io' = [io EXCEPT ![t] = ioNow]
         /\ written' = [written EXCEPT ![t] = writtenNow]
         /\ loggedAt' = [loggedAt EXCEPT ![t] = now]
         /\ UNCHANGED << branch, entry, logCalls, result >>
    ELSE IF branch[t].block = "try"
    THEN /\ branch' = [branch EXCEPT ![t] = [block |-> "catch", error |-> ErrIO]]
         /\ CallLogConfirmation(t, FailureEntry(params[t], ErrIO, startTime[t], now))
         /\ UNCHANGED << loggedAt, result >>
    ELSE /\ pc' = [pc EXCEPT ![t] = "done"]
         /\ result' = [result EXCEPT ![t] = Thrown(ErrIO)]
         /\ io' = [io EXCEPT ![t] = ioNow]
         /\ written' = [written EXCEPT ![t] = writtenNow]
         /\ loggedAt' = [loggedAt EXCEPT ![t] = now]
         /\ UNCHANGED << branch, entry, logCalls >>

\* Mutation of Mkdir: logConfirmation goes on only when no other call awaits
\* the channel.
Mkdir_WaitsForOthers(t, ok) ==
    /\ pc[t] = "mkdir"
    /\ \A u \in Txn \ {t} : pc[u] # "awaiting"
    /\ ok \/ faults < MaxFaults
    /\ faults' = IF ok THEN faults ELSE faults + 1
    /\ pc' = [pc EXCEPT ![t] = "write"]
    /\ io' = [io EXCEPT ![t] = [io[t] EXCEPT !.mkdir = IF ok THEN "ok" ELSE "failed"]]
    /\ reply' = NoReply
    /\ UNCHANGED << toolVars, readerVars >>
    /\ UNCHANGED << branch, entry, logCalls, written, loggedAt, result >>
    /\ UNCHANGED << params, startTime, settled, handlers, late, file, completed,
                    now, splits >>

\* ensureLogDirectory: fs.promises.mkdir(logDir, {recursive: true}) completes.
\* A failure is caught in ensureLogDirectory, and appendFile is called next.
Mkdir(t, ok) ==
    /\ pc[t] = "mkdir"
    /\ ok \/ faults < MaxFaults
    /\ faults' = IF ok THEN faults ELSE faults + 1
    /\ LET ioNow == [io[t] EXCEPT !.mkdir = IF ok THEN "ok" ELSE "failed"] IN
       IF ok \/ EnsureLogDirectoryOutcome(~ok) = "returns"
       THEN /\ pc' = [pc EXCEPT ![t] = "write"]
            /\ io' = [io EXCEPT ![t] = ioNow]
            /\ UNCHANGED << branch, entry, logCalls, written, loggedAt, result >>
       ELSE FinishLog(t, TRUE, [ioNow EXCEPT !.append = "skipped"], 0)
    /\ reply' = NoReply
    /\ UNCHANGED << toolVars, readerVars >>
    /\ UNCHANGED << params, startTime, settled, handlers, late, file, completed,
                    now, splits >>

\* appendFile: the next step of the call completes.  appendFile opens the
\* file with flag "a" and writes the line in a loop, awaiting each write: a
\* write puts all the bytes that are left at the end of the file ("all"), or
\* only the first part of the line ("part": the line is longer than one chunk
\* of appendFile, or the write is short); a failed open or write ("fail")
\* rejects appendFile and leaves in the file what was written.
Write(t, how) ==
    /\ pc[t] = "write"
    /\ CASE how = "all" ->
              /\ file' = AppendToFile(file, Bytes(t, entry[t], written[t]))
              /\ FinishLog(t, FALSE, [io[t] EXCEPT !.append = "ok"], 2)
              /\ UNCHANGED << faults, splits >>
         [] how = "part" ->
              /\ written[t] = 0
              /\ splits < MaxSplitWrites
              /\ splits' = splits + 1
              /\ file' = AppendToFile(file, SubSeq(Bytes(t, entry[t], 0), 1, 1))
              /\ written' = [written EXCEPT ![t] = 1]
              /\ UNCHANGED << pc, branch, entry, logCalls, io, loggedAt, result, faults >>
         [] how = "fail" ->
              /\ faults < MaxFaults
              /\ faults' = faults + 1
              /\ file' = file
              /\ FinishLog(t, TRUE, [io[t] EXCEPT !.append = "failed"], written[t])
              /\ UNCHANGED splits
    /\ reply' = NoReply
    /\ UNCHANGED << toolVars, readerVars >>
    /\ UNCHANGED << params, startTime, settled, handlers, late, completed, now >>

\* Mutation of Return: the catch block returns a cancel instead of throwing.
Return_CancelOnFailure(t) ==
    /\ pc[t] = "return"
    /\ pc' = [pc EXCEPT ![t] = "done"]
    /\ result' = [result EXCEPT ![t] =
                    IF branch[t].block = "try"
                    THEN Returned(settled[t].response)
                    ELSE Returned([action |-> "cancel"])]
    /\ reply' = NoReply
    /\ UNCHANGED << toolVars, readerVars >>
    /\ UNCHANGED << params, startTime, settled, branch, entry, logCalls, io,
                    written, loggedAt, handlers, late, file, completed, now,
                    faults, splits >>

\* The statement after the await of logConfirmation: the try block returns
\* the response, the catch block throws.
Return(t) ==
    /\ pc[t] = "return"
    /\ pc' = [pc EXCEPT ![t] = "done"]
    /\ result' = [result EXCEPT ![t] =
                    IF branch[t].block = "try"
                    THEN Returned(settled[t].response)
                    ELSE ElicitationFailed(branch[t].error)]
    /\ reply' = NoReply
    /\ UNCHANGED << toolVars, readerVars >>
    /\ UNCHANGED << params, startTime, settled, branch, entry, logCalls, io,
                    written, loggedAt, handlers, late, file, completed, now,
                    faults, splits >>

-----------------------------------------------------------------------------
(* The reader's tools and the clock *)

SearchLogs ==
    /\ reply' = handleSearchLogs(OnDisk(file), NoArgs)
    /\ UNCHANGED << toolVars, readerVars >>
    /\ UNCHANGED << pc, params, startTime, settled, branch, entry, logCalls, io,
                    written, loggedAt, result, handlers, late, file, completed,
                    now, faults, splits >>

AnalyzeLogs ==
    /\ reply' = handleAnalyzeLogs(OnDisk(file), NoArgs, None, tz)
    /\ UNCHANGED << toolVars, readerVars >>
    /\ UNCHANGED << pc, params, startTime, settled, branch, entry, logCalls, io,
                    written, loggedAt, result, handlers, late, file, completed,
                    now, faults, splits >>

Next ==
    \/ \E t \in Txn, p \in Requests : StartSend(t, p)
    \/ \E t \in Txn, o \in Outcomes : ChannelResolve(t, o)
    \/ \E t \in Txn, m \in ChannelErrors : ChannelReject(t, m)
    \/ \E t \in Txn, o \in Outcomes : LateReply(t, o)
    \/ \E t \in Txn, ok \in BOOLEAN : Mkdir(t, ok)
    \/ \E t \in Txn, how \in {"all", "part", "fail"} : Write(t, how)
    \/ \E t \in Txn : Return(t)
    \/ SearchLogs
    \/ AnalyzeLogs

\* The server: the engine, the log writer and the tools of the reader.
Spec == Init /\ [][Next]_vars

\* The steps of transaction t that the channel takes (it answers the request,
\* or reports the timeout or an error of the transport) and those that the
\* event loop takes (the continuations of the awaits of the call).
ChannelSettles(t) ==
    \/ \E o \in Outcomes : ChannelResolve(t, o)
    \/ \E m \in ChannelErrors : ChannelReject(t, m)
Continues(t) ==
    \/ \E ok \in BOOLEAN : Mkdir(t, ok)
    \/ \E how \in {"all", "part", "fail"} : Write(t, how)
    \/ Return(t)

\* The channel settles every request in the end (the SDK arms a timer of
\* timeoutMs for each), and the event loop runs every continuation that is
\* ready.
Fairness ==
    \A t \in Txn : WF_vars(ChannelSettles(t)) /\ WF_vars(Continues(t))

LiveSpec == Spec /\ Fairness

-----------------------------------------------------------------------------
(* The configuration and the handlers of the elicitation tools, on their own:
   what each handler gives to sendElicitationRequest, and what that gives to
   the channel (the timeout) and to the log (the confirmationType) *)

\* Number of fragments of a text given to a tool.
MaxWords == 2

Texts(words) == UNION { [1 .. n -> words] : n \in 0 .. MaxWords }

\* Values of MCP_CONFIRM_TIMEOUT_MS.
Envs ==
    { EnvUnset, EnvSet(<< >>),
      EnvSet(<< "a", "b", "c" >>), EnvSet(<< "-", "1" >>),
      EnvSet(<< "6", "0", "s" >>), EnvSet(<< " ", "7", "0", "0", "0" >>) }
    \cup { EnvSet(String(n)) : n \in {0, 4999, 5000, 300000, 1800000, 1800001} }

ImpactWords == { "Delete", "Removed", JaDelete, JaDestroy, "WARNING", "harmless" }

MessageWords ==
    { "CONFIRM", JaConfirm, "generate", JaRate, "Clarify", JaClarify,
      "verify", JaVerify, "Yes/No", JaYesNo, "hello" }

OptionalTexts(words) == { Absent } \cup { Given(t) : t \in Texts(words) }

\* Schemas a caller of elicit_custom gives: with and without the key
\* `required`, the names required being properties or not.
CallerSchemas ==
    { Schema({}, {}), Schema({"name"}, {}), Schema({"name"}, {"name"}),
      Schema({}, {"name"}), Schema({"name"}, {"name", "age"}) }

\* What the client answers.
ToolOutcomes ==
    { Accept([confirmed |-> Bool(TRUE)]),
      Accept([confirmed |-> Bool(FALSE)]),
      Accept([confirmed |-> Str("false")]),
      Accept([confirmed |-> Bool(TRUE), note |-> Str("ok")]),
      Accept(<< >>),
      AcceptWithoutContent, Decline, Cancel }

\* The tools/call requests of the elicitation tools.
ToolRequests ==
    { ToolRequest("confirm_action", i) : i \in OptionalTexts(ImpactWords) }
    \cup { ToolRequest("ask_yes_no", q) : q \in OptionalTexts(MessageWords) }
    \cup { ToolRequest("collect_rating", x) :
             x \in OptionalTexts({"delivery", "Confirm"}) }
    \cup { CustomRequest(m, NoSchema) : m \in OptionalTexts(MessageWords) }
    \cup { CustomRequest(Absent, SchemaGiven(sc)) : sc \in CallerSchemas }
    \cup { ToolRequest("clarify_intent", o) : o \in OptionalTexts({"staging"}) }
    \cup { ToolRequest("verify_understanding", u) :
             u \in { Absent, Given(<< "deploy" >>) } }

\* The server starts with some value of the variable and gets one call.
ToolInit ==
    /\ EngineInit
    /\ env \in Envs
    /\ config = NotLoaded
    /\ call \in ToolRequests
    /\ send = NoSend
    /\ disk = NoDisk
    /\ args = NoArgs
    /\ tz = 0

\* The constructor: this.config = this.loadConfig().
LoadConfig ==
    /\ config = NotLoaded
    /\ config' = loadConfig(env)
    /\ UNCHANGED << engineVars, reply, env, call, send, readerVars >>

\* The handler of the call in `call` has built the params p and calls
\* sendElicitationRequest, which calls server.request and awaits it.
Handle(p) ==
    /\ config # NotLoaded
    /\ call.pending
    /\ call' = ToolCall(call.tool, call.input, p, config)
    /\ send' = [calls |-> send.calls + 1, requests |-> send.requests + 1,
                state |-> "awaiting"]
    /\ UNCHANGED << engineVars, reply, env, config, readerVars >>

\* handleConfirmAction, to its call of sendElicitationRequest.
ConfirmAction ==
    /\ call.tool = "confirm_action"
    /\ Handle(ConfirmActionParams(<< "deploy" >>, call.input, config))

\* handleAskYesNo, to its call of sendElicitationRequest.
AskYesNo ==
    /\ call.tool = "ask_yes_no"
    /\ Handle(AskYesNoParams(call.input))

\* handleCollectRating, to its call of sendElicitationRequest.
CollectRating ==
    /\ call.tool = "collect_rating"
    /\ Handle(CollectRatingParams(call.input))

\* handleElicitCustom, to its call of sendElicitationRequest.
ElicitCustom ==
    /\ call.tool = "elicit_custom"
    /\ Handle(ElicitCustomParams(call.input, call.schema))

\* handleClarifyIntent, to its call of sendElicitationRequest.
ClarifyIntent ==
    /\ call.tool = "clarify_intent"
    /\ Handle(ClarifyIntentParams(call.input))

\* handleVerifyUnderstanding, to its call of sendElicitationRequest.
VerifyUnderstanding ==
    /\ call.tool = "verify_understanding"
    /\ Handle(VerifyUnderstandingParams(call.input))

\* server.request resolves with o: sendElicitationRequest logs the entry and
\* returns o, and the handler answers.
SendResolves(o) ==
    /\ send.state = "awaiting"
    /\ send' = [calls |-> send.calls, requests |-> send.requests,
                state |-> "settled", result |-> Returned(o)]
    /\ reply' = HandlerReply(call, Returned(o))
    /\ UNCHANGED << engineVars, env, config, call, readerVars >>

\* Mutation of SendRejects: the catch block sends the request once more
\* before it gives up.
SendRejects_Retry(m) ==
    /\ send.state = "awaiting"
    /\ IF send.requests < 2
       THEN /\ send' = [send EXCEPT !.requests = @ + 1]
            /\ UNCHANGED reply
       ELSE /\ send' = [calls |-> send.calls, requests |-> send.requests,
                        state |-> "settled", result |-> ElicitationFailed(m)]
            /\ reply' = HandlerReply(call, ElicitationFailed(m))
    /\ UNCHANGED << engineVars, env, config, call, readerVars >>

\* server.request rejects with an error of message m: sendElicitationRequest
\* logs the entry and throws, and the catch block of the handler answers.
SendRejects(m) ==
    /\ send.state = "awaiting"
    /\ send' = [calls |-> send.calls, requests |-> send.requests,
                state |-> "settled", result |-> ElicitationFailed(m)]
    /\ reply' = HandlerReply(call, ElicitationFailed(m))
    /\ UNCHANGED << engineVars, env, config, call, readerVars >>

ToolNext ==
    \/ LoadConfig
    \/ ConfirmAction
    \/ AskYesNo
    \/ CollectRating
    \/ ElicitCustom
    \/ ClarifyIntent
    \/ VerifyUnderstanding
    \/ \E o \in ToolOutcomes : SendResolves(o)
    \/ \E m \in ChannelErrors : SendRejects(m)

ToolSpec == ToolInit /\ [][ToolNext]_vars

-----------------------------------------------------------------------------
(* The reader on its own: search_logs and analyze_logs over a log file *)

\* Number of lines of a log file.
MaxRecords == 3

\* Number of filters given in one search.
MaxFilters == 2

\* The largest page asked for.
MaxPage == 4

RateRequest == [message |-> << "Rate", "delivery" >>, timeoutMs |-> 20000]

\* Entries as the engine writes them: two successes of the same instant, a
\* timeout and a transport failure.
LogEntries ==
    LET confirm == CHOOSE p \in Requests : TRUE IN
    { SuccessEntry(confirm, [action |-> "accept", content |-> [confirmed |-> TRUE]], 0, 2),
      SuccessEntry(RateRequest, [action |-> "decline"], 1, 2),
      FailureEntry(confirm, ErrTimeout, 0, 3),
      FailureEntry(RateRequest, ErrTransport, 0, 1) }

Logs == UNION { [1 .. n -> LogEntries] : n \in 0 .. MaxRecords }

RECURSIVE FileOf(_, _)
\* The file that holds the lines of the entries es; of the line `torn`, if
\* any, only the beginning.
FileOf(es, torn) ==
    IF es = << >> THEN << >>
    ELSE FileOf(SubSeq(es, 1, Len(es) - 1), torn) \o
         (IF torn = Len(es)
          THEN SubSeq(Bytes(Len(es), es[Len(es)], 0), 1, 1)
          ELSE Bytes(Len(es), es[Len(es)], 0))

Disks ==
    { NoDisk } \cup
    { OnDisk(FileOf(es, torn)) : es \in Logs, torn \in {0} } \cup
    { OnDisk(FileOf(es, 1)) : es \in Logs \ { << >> } } \cup
    { OnDisk(FileOf(es, Len(es))) : es \in Logs \ { << >> } }

Filters == DOMAIN NoArgs \ {"page", "pageSize"}

\* The searches by at most MaxFilters filters, first page.
FilterArgs ==
    { a \in [ keyword : {None, Some("Accept"), Some("confirm")},
              confirmationType : {None, Some("rating")},
              startDate : {None, Some(2)},
              endDate : {None, Some(2)},
              success : {None, Some(TRUE), Some(FALSE)},
              timedOut : {None, Some(TRUE), Some(FALSE)},
              minResponseTime : {None, Some(2)},
              maxResponseTime : {None, Some(2)},
              page : {None},
              pageSize : {None} ] :
        Cardinality({ f \in Filters : a[f].given }) <= MaxFilters }

\* The searches for a page of a size, of all entries or of the successes.
PagingArgs ==
    { [NoArgs EXCEPT !.page = pg, !.pageSize = sz, !.success = su] :
        pg \in {None} \cup { Some(k) : k \in -1 .. MaxPage },
        sz \in {None} \cup { Some(k) : k \in {-1, 0, 1, 2, 101} },
        su \in {None, Some(TRUE)} }

\* The groupBy argument of analyze_logs: none, the four fields, another.
GroupBys ==
    { None, Some("success"), Some("hour"), Some("day"), Some("request") }

\* Time zones of the process, in minutes east of UTC: UTC and UTC+05:30.
TimeZones == { 0, 330 }

\* The arguments hold nothing but what analyze_logs reads of them, the dates.
DatesOnly(a) == \A f \in DOMAIN a \ {"startDate", "endDate"} : ~a[f].given

\* The server has got a log file and the arguments of one call.  search_logs
\* does not read the time zone: the zones other than UTC are drawn with the
\* arguments that analyze_logs is called with.
ReaderInit ==
    /\ EngineInit
    /\ env = EnvUnset
    /\ config = loadConfig(env)
    /\ call = NoCall
    /\ send = NoSend
    /\ disk \in Disks
    /\ args \in FilterArgs \cup PagingArgs
    /\ tz \in (IF DatesOnly(args) THEN TimeZones ELSE {0})

\* handleSearchLogs, called with the arguments args.
Search ==
    /\ reply = NoReply
    /\ reply' = handleSearchLogs(disk, args)
    /\ UNCHANGED << engineVars, toolVars, readerVars >>

\* handleAnalyzeLogs, called with the dates of args and a groupBy; the
\* handler reads no other argument.
Analyze ==
    /\ reply = NoReply
    /\ DatesOnly(args)
    /\ \E g \in GroupBys : reply' = handleAnalyzeLogs(disk, args, g, tz)
    /\ UNCHANGED << engineVars, toolVars, readerVars >>

ReaderNext == Search \/ Analyze

ReaderSpec == ReaderInit /\ [][ReaderNext]_vars

-----------------------------------------------------------------------------
(* What the claims speak of *)

Settled(t) == settled[t].kind # "pending"
ChannelResolved(t) == settled[t].kind = "resolved"
ChannelRejected(t) == settled[t].kind = "rejected"
Finished(t) == result[t] # NoResult

\* The bytes in the log that transaction t wrote, in their order in the file.
PartsOf(t) == SelectSeq(file, LAMBDA b : b.txn = t)

\* The positions in the file of the whole lines that are records of t.
RecordsOf(t) ==
    { i \in 1 .. Len(Lines(file)) :
        Parses(Lines(file)[i]) /\ Lines(file)[i][1].txn = t }

RecordAt(i) == Lines(file)[i][1].rec

\* The log holds the line of transaction t, whole.
HasRecord(t) == RecordsOf(t) # {}

IsPrefix(f, g) == Len(f) <= Len(g) /\ SubSeq(g, 1, Len(f)) = f

-----------------------------------------------------------------------------
(* C1 *)

\* C1: every call of sendElicitationRequest makes exactly one logConfirmation
\* call before it returns or throws: none while it awaits the channel, one
\* from the moment the channel call settles, on the try path or on the catch
\* path, and never a second one, whatever the channel and the file system do.
C1_ExactlyOneLogCall ==
    \A t \in Txn :
        /\ logCalls[t] <= 1
        /\ Settled(t) => logCalls[t] = 1
        /\ Finished(t) => logCalls[t] = 1 /\ pc[t] = "done"
        /\ ~Settled(t) => logCalls[t] = 0 /\ ~Finished(t)

\* Two finished calls, one that returned and one that threw, each with its
\* one logConfirmation call.
C1_Witness ==
    \E t, u \in Txn :
        /\ result[t].kind = "return" /\ logCalls[t] = 1
        /\ result[u].kind = "throw" /\ logCalls[u] = 1

-----------------------------------------------------------------------------
(* C2 *)

\* C2: when the channel call rejects (timeout or transport error), the entry
\* handed to the log writer has success = false, response = {action: "cancel"}
\* without content and error = the message of the failure; the call throws,
\* and only after logConfirmation has settled; it never returns an outcome,
\* and nothing it wrote to the log says success = true: what it wrote is that
\* entry, whole when appendFile succeeded.
C2_RejectionIsLoggedThenThrown ==
    \A t \in Txn : ChannelRejected(t) =>
        /\ entry[t].success = FALSE
        /\ entry[t].response = [action |-> "cancel"]
        /\ entry[t].error = settled[t].error
        /\ result[t].kind # "return"
        /\ Finished(t) => /\ result[t].kind = "throw"
                          /\ io[t].append \in {"ok", "failed"}
        /\ \A i \in 1 .. Len(file) :
              file[i].txn = t => file[i].rec = entry[t] /\ ~file[i].rec.success
        /\ io[t].append = "ok" => Len(PartsOf(t)) = 2

\* A call that timed out and one whose transport failed have both thrown,
\* and the log holds the record of the timeout.
C2_Witness ==
    \E t, u \in Txn :
        /\ ChannelRejected(t) /\ settled[t].error = ErrTimeout
        /\ result[t].kind = "throw" /\ HasRecord(t)
        /\ ChannelRejected(u) /\ settled[u].error = ErrTransport
        /\ result[u].kind = "throw"

-----------------------------------------------------------------------------
(* C3 *)

\* C3: when the channel call resolves with an outcome, the entry handed to the
\* log writer has success = true, no error, and response equal to the outcome,
\* whatever its action (accept, decline or cancel), and the call returns the
\* outcome unchanged; what the call wrote to the log is that entry.
C3_ResolutionIsLoggedAndReturned ==
    \A t \in Txn : ChannelResolved(t) =>
        /\ entry[t].success = TRUE
        /\ "error" \notin DOMAIN entry[t]
        /\ entry[t].response = settled[t].response
        /\ Finished(t) => result[t] = Returned(settled[t].response)
        /\ \A i \in 1 .. Len(file) :
              file[i].txn = t =>
                 /\ file[i].rec.success
                 /\ file[i].rec.response = settled[t].response
        /\ io[t].append = "ok" => Len(PartsOf(t)) = 2

\* A cancel and a decline delivered by the channel are in the log with
\* success = true, and were returned.
C3_Witness ==
    \E t, u \in Txn :
        /\ settled[t] = [kind |-> "resolved", response |-> [action |-> "cancel"], id |-> t]
        /\ settled[u] = [kind |-> "resolved", response |-> [action |-> "decline"], id |-> u]
        /\ result[t] = Returned([action |-> "cancel"])
        /\ result[u] = Returned([action |-> "decline"])
        /\ \E i \in RecordsOf(t) :
              RecordAt(i).success /\ RecordAt(i).response.action = "cancel"
        /\ \E i \in RecordsOf(u) :
              RecordAt(i).success /\ RecordAt(i).response.action = "decline"

-----------------------------------------------------------------------------
(* C4 *)

\* C4: a reply that arrives after its request has timed out is discarded.  The
\* step in which it arrives changes no transaction, no result and no byte of
\* the log; a call whose channel call was rejected never returns an outcome;
\* what a call gave its caller never changes afterwards; and every call is
\* settled by the reply to its own request, never by the reply to another,
\* also with several calls in flight.
C4_LateReplyDiscarded ==
    /\ [](\A t \in Txn : Settled(t) => settled[t].id = t)
    /\ [](\A t \in Txn : ChannelRejected(t) => result[t].kind # "return")
    /\ [][\A t \in Txn :
            late[t] = "inflight" /\ late'[t] = "arrived" =>
               UNCHANGED << pc, settled, branch, entry, logCalls, result, file,
                            handlers, completed >>]_vars
    /\ [][\A t \in Txn : Finished(t) => result'[t] = result[t]]_vars

\* The late reply of a call that timed out and has thrown has arrived while
\* another call awaits its own reply.
C4_Witness ==
    \E t, u \in Txn :
        /\ late[t] = "arrived"
        /\ result[t].kind = "throw"
        /\ pc[u] = "awaiting"

-----------------------------------------------------------------------------
(* C5 *)

\* Transaction a's channel call completed before that of b.
CompletedBefore(a, b) ==
    \E i, j \in 1 .. Len(completed) :
        i < j /\ completed[i] = a /\ completed[j] = b

\* C5: the records in the log are in the order in which the channel calls
\* completed: when a's channel call completed before b's and the log holds
\* the records of both, a's record is the earlier one.
C5_LogOrderIsCompletionOrder ==
    \A a, b \in Txn :
        CompletedBefore(a, b) /\ HasRecord(a) /\ HasRecord(b) =>
            \A i \in RecordsOf(a), j \in RecordsOf(b) : i < j

-----------------------------------------------------------------------------
(* C6 *)

\* C6: every line of the log is the whole text of one record followed by its
\* newline; the only bytes that may lack their newline are the beginning of
\* the record of an append that is still being written, at the end of the
\* file, and no line mixes the bytes of two records.
C6_RecordsWholeAndNotInterleaved ==
    LET ls == Lines(file) IN
    \A i \in 1 .. Len(ls) :
        \/ Parses(ls[i])
        \/ /\ i = Len(ls)
           /\ Len(ls[i]) = 1
           /\ ls[i][1].part = 1
           /\ pc[ls[i][1].txn] = "write"

-----------------------------------------------------------------------------
(* C7 *)

\* C7: what a call gives its caller is decided by the result of the channel
\* call alone: the outcome, returned unchanged, when the channel resolved, and
\* the error "Elicitation failed: <message of the channel>" when it rejected,
\* whether mkdir and appendFile succeeded or failed; no error of the log I/O
\* is ever thrown to the caller.
C7_LogFailureNeverChangesResult ==
    \A t \in Txn : Finished(t) =>
        /\ ChannelResolved(t) => result[t] = Returned(settled[t].response)
        /\ ChannelRejected(t) =>
              result[t] = Thrown("Elicitation failed: " \o settled[t].error)
        /\ result[t] # Thrown(ErrIO)

\* A call has returned the outcome of the channel although mkdir or
\* appendFile failed in its logConfirmation.
C7_Witness ==
    \E t \in Txn :
        /\ result[t].kind = "return"
        /\ io[t].append = "failed" \/ io[t].mkdir = "failed"

-----------------------------------------------------------------------------
(* C8 *)

\* No call is between the start of sendElicitationRequest and its end.
Quiescent == \A t \in Txn : pc[t] \in {"idle", "done"}

-----------------------------------------------------------------------------
(* C9 *)

\* C9: the log is append-only: in every step the old log is a prefix of the
\* new one; the log grows only in a step of appendFile of a logConfirmation
\* call, and by bytes of the entry of that call; search_logs and analyze_logs
\* leave the log as it is.
C9_AppendOnly ==
    [][ /\ IsPrefix(file, file')
        /\ file' # file =>
              \E t \in Txn :
                  /\ pc[t] = "write"
                  /\ \A i \in (Len(file) + 1) .. Len(file') :
                        file'[i].txn = t /\ file'[i].rec = entry[t]
        /\ reply'.tool \in {"search_logs", "analyze_logs"} => file' = file
      ]_vars

\* search_logs has answered from a log of two records.
C9_Witness ==
    /\ reply.tool = "search_logs"
    /\ reply.totalCount = 2
    /\ Len(file) = 4

-----------------------------------------------------------------------------
(* C10 *)

\* C10: in every entry the engine hands to logConfirmation, and in every
\* record whose bytes are in the log, the error field is present if and only
\* if success is false.
C10_ErrorIffNotSuccess ==
    /\ \A t \in Txn : entry[t] # NoEntry =>
          (("error" \in DOMAIN entry[t]) <=> ~entry[t].success)
    /\ \A i \in 1 .. Len(file) :
          (("error" \in DOMAIN file[i].rec) <=> ~file[i].rec.success)

\* The log holds a record of a success and a record of a failure.
C10_Witness ==
    \E t, u \in Txn :
        /\ HasRecord(t) /\ entry[t].success
        /\ HasRecord(u) /\ ~entry[u].success

-----------------------------------------------------------------------------
(* C11 *)

\* The bounds the README gives for MCP_CONFIRM_TIMEOUT_MS.
MinTimeoutMs == 5000
MaxTimeoutMs == 1800000

WithinBounds(x) == ~x.nan /\ MinTimeoutMs <= x.n /\ x.n <= MaxTimeoutMs

\* The handler of the tool call has built its params and handed them on.
Handled == call.tool # "none" /\ ~call.pending

\* C11: the default timeout of the configuration is always within
\* [5000, 1800000]: a value of MCP_CONFIRM_TIMEOUT_MS that is below 5000,
\* above 1800000 or not a number gives the built-in default, and a request
\* without timeoutMs is given to the channel with a timeout within the bounds.
C11_DefaultTimeoutWithinBounds ==
    /\ config # NotLoaded =>
          /\ WithinBounds(config.defaultTimeoutMs)
          /\ ~WithinBounds(parseInt(env.value)) =>
                config.defaultTimeoutMs = Num(DefaultTimeoutMs)
    /\ Handled /\ "timeoutMs" \notin DOMAIN call.params =>
          WithinBounds(call.timeout)

-----------------------------------------------------------------------------
(* C12 *)

\* The timeout by the keywords of the impact text, `destructive` being the
\* destructive keywords.
TimeoutByImpact(impact, destructive, default) ==
    IF impact.given /\ \E k \in destructive : Includes(impact.text, k)
    THEN Num(120000)
    ELSE IF impact.given /\ Includes(impact.text, "warning")
    THEN Num(90000)
    ELSE default

\* C12: the timeout given to the channel is 30000 for ask_yes_no, 20000 for
\* collect_rating and, for confirm_action, 120000 when the impact contains
\* "delete" or "remove" in any case, else 90000 when it contains "warning",
\* else the default of the configuration.
C12_TimeoutPerTool ==
    Handled =>
        /\ call.tool = "ask_yes_no" => call.timeout = Num(30000)
        /\ call.tool = "collect_rating" => call.timeout = Num(20000)
        /\ call.tool = "confirm_action" =>
              call.timeout = TimeoutByImpact(call.input, {"delete", "remove"},
                                             config.defaultTimeoutMs)

\* C12, as the code has it: the destructive keywords are "delete", "remove"
\* and the Japanese words for deletion and destruction; they take precedence
\* over "warning"; ask_yes_no is sent with 30000 and collect_rating with
\* 20000, whatever the configuration.
C12_TimeoutPerToolAllKeywords ==
    Handled =>
        /\ call.tool = "ask_yes_no" => call.timeout = Num(30000)
        /\ call.tool = "collect_rating" => call.timeout = Num(20000)
        /\ call.tool = "confirm_action" =>
              call.timeout =
                 TimeoutByImpact(call.input,
                                 {"delete", "remove", JaDelete, JaDestroy},
                                 config.defaultTimeoutMs)

\* confirm_action was called with an impact that holds a destructive keyword
\* in capitals and a warning keyword, and was sent with 120000.
C12_Witness ==
    /\ Handled
    /\ call.tool = "confirm_action"
    /\ call.input = Given(<< "WARNING", "Delete" >>)
    /\ call.timeout = Num(120000)

-----------------------------------------------------------------------------
(* C13 *)

ConfirmationTypes ==
    << "confirmation", "rating", "clarification", "verification", "yes_no" >>

\* The ranks (positions in ConfirmationTypes) of the keywords of `keywords`
\* that the message contains.
Matches(message, keywords) ==
    { k \in 1 .. 5 : \E w \in keywords[k] : Includes(message, w) }

TypeByFirstMatch(message, keywords) ==
    LET ms == Matches(message, keywords) IN
    IF ms = {} THEN "custom"
    ELSE ConfirmationTypes[CHOOSE k \in ms : \A j \in ms : k <= j]

\* C13: the confirmationType of a request is that of the first of "confirm",
\* "rate", "clarify", "verify", "yes/no" that its message contains in any
\* case, and custom when it contains none.
C13_TypeByKeyword ==
    Handled =>
        call.confirmationType =
            TypeByFirstMatch(call.params.message,
                             << {"confirm"}, {"rate"}, {"clarify"}, {"verify"},
                                {"yes/no"} >>)

\* C13, as the code has it: each rank has an English and a Japanese keyword,
\* either of which matches; the first rank that matches gives the type, no
\* match gives custom, and the type is always one of the six.
C13_TypeByKeywordAllKeywords ==
    Handled =>
        /\ call.confirmationType =
              TypeByFirstMatch(call.params.message,
                               << {"confirm", JaConfirm}, {"rate", JaRate},
                                  {"clarify", JaClarify}, {"verify", JaVerify},
                                  {"yes/no", JaYesNo} >>)
        /\ call.confirmationType \in
              {"confirmation", "rating", "clarification", "verification",
               "yes_no", "custom"}

\* A message that holds "verify" and, behind it, a word that contains "rate"
\* got the type rating.
C13_Witness ==
    /\ Handled
    /\ call.tool = "elicit_custom"
    /\ call.input = Given(<< "verify", "generate" >>)
    /\ call.confirmationType = "rating"

-----------------------------------------------------------------------------
(* C14 *)

\* search_logs has answered, and not with an error.
Searched == reply.tool = "search_logs" /\ ~reply.isError

\* The entries of the lines of the log, in the order of the file.
Stored ==
    LET ls == Lines(disk.content) IN [i \in 1 .. Len(ls) |-> ls[i][1].rec]

\* The entry e satisfies the predicate of the filter f given with value v.
Satisfies(e, f, v) ==
    CASE f = "keyword" ->
            Includes(e.request.message \o StringifyResponse(e.response),
                     toLowerCase(v))
      [] f = "confirmationType" -> e.confirmationType = v
      [] f = "startDate" -> e.timestamp >= v
      [] f = "endDate" -> e.timestamp <= v
      [] f = "success" -> e.success = v
      [] f = "timedOut" ->
            (("error" \in DOMAIN e /\ Contains(e.error, "timed out")) = v)
      [] f = "minResponseTime" -> e.responseTimeMs >= v
      [] f = "maxResponseTime" -> e.responseTimeMs <= v

\* The positions in the log of the entries that satisfy every filter given.
Matching ==
    { i \in 1 .. Len(Stored) :
        \A f \in Filters : args[f].given => Satisfies(Stored[i], f, args[f].value) }

FirstPageOfTen == ~args.page.given /\ ~args.pageSize.given

-----------------------------------------------------------------------------
(* C15 *)

HasTimeoutMarker(e) == "error" \in DOMAIN e /\ Contains(e.error, "timed out")

\* C15: with the filter timedOut given, every entry found has an error that
\* contains "timed out" when timedOut is true, and has no such error when it
\* is false; an entry without error is never found by timedOut = true; and
\* when timedOut is the only filter, the entries found are all of these.
C15_TimedOutFromError ==
    Searched /\ args.timedOut.given =>
        /\ \A i \in 1 .. Len(reply.entries) :
              /\ HasTimeoutMarker(reply.entries[i]) = args.timedOut.value
              /\ "error" \notin DOMAIN reply.entries[i] => ~args.timedOut.value
        /\ (\A f \in Filters \ {"timedOut"} : ~args[f].given) =>
              reply.totalCount =
                 Cardinality({ i \in 1 .. Len(Stored) :
                                 HasTimeoutMarker(Stored[i]) = args.timedOut.value })

\* A search with timedOut = false over a log with a timeout, a transport
\* failure and a success found the two that did not time out.
C15_Witness ==
    /\ Searched
    /\ args.timedOut = Some(FALSE)
    /\ Len(Stored) = 3
    /\ reply.totalCount = 2
    /\ \E i \in 1 .. 2 : "error" \in DOMAIN reply.entries[i]
    /\ \E i \in 1 .. 2 : "error" \notin DOMAIN reply.entries[i]

-----------------------------------------------------------------------------
(* C16 *)

\* The entries search_logs returns for page k of the search in args.
PageOf(k) == handleSearchLogs(disk, [args EXCEPT !.page = Some(k)]).entries

RECURSIVE PagesUpTo(_)
\* The entries of the pages 1 .. k, one after the other.
PagesUpTo(k) == IF k < 1 THEN << >> ELSE PagesUpTo(k - 1) \o PageOf(k)

\* C16: the pages partition the result: totalPages is
\* ceil(totalCount / pageSize), the pages 1 .. totalPages one after the other
\* are the filtered, sorted entries, and a page beyond totalPages is empty.
C16_PagesPartitionResult ==
    Searched =>
        /\ reply.totalPages = Ceil(reply.totalCount, reply.pageSize)
        /\ PagesUpTo(reply.totalPages) =
              SortNewestFirst(filterLogEntries(Stored, args))
        /\ args.page.given /\ args.page.value > reply.totalPages =>
              reply.entries = << >>

-----------------------------------------------------------------------------
(* C17 *)

\* The page size asked for is one that a search can have.
PageSizeInRange == ~args.pageSize.given \/ args.pageSize.value >= 1

\* C17: a search for page 0 or for a negative page is answered with an error
\* or with the entries of page 1.
C17_NonPositivePageRejectedOrClamped ==
    /\ reply.tool = "search_logs"
    /\ args.page.given /\ args.page.value <= 0
    /\ PageSizeInRange
    => reply.isError \/ reply.entries = PageOf(1)

-----------------------------------------------------------------------------
(* C18 *)

\* C18: the page size of a search is within 1 .. 100: 10 when none is given,
\* 100 when more is asked for, 1 when less than 1 is asked for, and what is
\* asked for otherwise; totalPages is never negative.
C18_PageSizeWithinRange ==
    Searched =>
        /\ reply.pageSize >= 1 /\ reply.pageSize <= 100
        /\ reply.pageSize =
              IF ~args.pageSize.given THEN 10
              ELSE IF args.pageSize.value > 100 THEN 100
              ELSE IF args.pageSize.value < 1 THEN 1
              ELSE args.pageSize.value
        /\ reply.totalPages >= 0

-----------------------------------------------------------------------------
(* C19 *)

\* The place in the result of the entry at position i of the log: behind the
\* matching entries that are newer, and behind those of the same timestamp
\* that stand before it in the log.
Rank(i) ==
    1 + Cardinality({ j \in Matching : Stored[j].timestamp > Stored[i].timestamp })
      + Cardinality({ j \in Matching :
                        j < i /\ Stored[j].timestamp = Stored[i].timestamp })

\* C19: the entries found are sorted by timestamp, newest first, and entries
\* of the same timestamp keep the order they have in the log.
C19_NewestFirstStable ==
    Searched /\ FirstPageOfTen =>
        /\ Len(reply.entries) = Cardinality(Matching)
        /\ \A i \in Matching : reply.entries[Rank(i)] = Stored[i]
        /\ \A i, j \in 1 .. Len(reply.entries) :
              i < j => reply.entries[i].timestamp >= reply.entries[j].timestamp

\* A search found an older entry, written last, behind two different entries
\* of one newer timestamp, which stand in the order of the log.
C19_Witness ==
    /\ Searched /\ FirstPageOfTen
    /\ Len(Stored) = 3 /\ Len(reply.entries) = 3
    /\ Stored[1].timestamp < Stored[2].timestamp
    /\ Stored[2].timestamp = Stored[3].timestamp
    /\ Stored[2] # Stored[3]
    /\ reply.entries = << Stored[2], Stored[3], Stored[1] >>

-----------------------------------------------------------------------------
(* C20 *)

\* search_logs or analyze_logs has answered.
Answered == reply.tool \in {"search_logs", "analyze_logs"}

\* The log file holds a line that is not the whole text of a record.
Unreadable ==
    /\ disk.exists
    /\ \E i \in 1 .. Len(Lines(disk.content)) : ~Parses(Lines(disk.content)[i])

\* The answer holds no entry and no count.
NothingComputed ==
    IF reply.tool = "search_logs"
    THEN reply.entries = << >> /\ reply.totalCount = 0
    ELSE reply.total = 0 /\ reply.successCount = 0 /\ reply.failureCount = 0

\* C20: a log file that does not exist is read as no records, without error;
\* a log with a line that does not parse makes search_logs and analyze_logs
\* answer with an error, and with nothing computed from the other lines; a
\* log whose lines all parse is read without error.
C20_AbsentIsEmptyMalformedIsError ==
    Answered =>
        /\ ~disk.exists => ~reply.isError /\ NothingComputed
        /\ Unreadable => reply.isError /\ NothingComputed
        /\ disk.exists /\ ~Unreadable => ~reply.isError

\* search_logs answered with an error for a log that holds a whole record and
\* a line that does not parse.
C20_Witness ==
    /\ reply.tool = "search_logs"
    /\ reply.isError
    /\ \E i \in 1 .. Len(Lines(disk.content)) : Parses(Lines(disk.content)[i])

-----------------------------------------------------------------------------
(* C21 *)

\* analyze_logs has answered, and not with an error.
Analyzed == reply.tool = "analyze_logs" /\ ~reply.isError

\* The positions in the log of the entries within the dates given.
InRange ==
    { i \in 1 .. Len(Stored) :
        /\ args.startDate.given => Stored[i].timestamp >= args.startDate.value
        /\ args.endDate.given => Stored[i].timestamp <= args.endDate.value }

\* C21: analyze_logs over no matching record (a log that is absent or empty,
\* or dates that no record lies within) does not fail and reports 0 for the
\* total, success, failure and timed-out counts and for the average, minimum
\* and maximum response time, with no group in the breakdown; for any records
\* the failure count is the total minus the success count.
C21_ZeroRecordsZeroStatistics ==
    /\ reply.tool = "analyze_logs" /\ ~Unreadable /\ InRange = {} =>
          /\ ~reply.isError
          /\ reply.total = 0
          /\ reply.successCount = 0
          /\ reply.failureCount = 0
          /\ reply.timedOutCount = 0
          /\ reply.avgResponseTime = Num(0)
          /\ reply.minResponseTime = 0
          /\ reply.maxResponseTime = 0
          /\ DOMAIN reply.groups = {}
    /\ Analyzed =>
          /\ reply.total = Cardinality(InRange)
          /\ reply.successCount =
                Cardinality({ i \in InRange : Stored[i].success })
          /\ reply.failureCount = reply.total - reply.successCount
          /\ ~reply.avgResponseTime.nan

\* analyze_logs answered with zeros for a log that holds records, none of
\* them within the dates given.
C21_Witness ==
    /\ Analyzed
    /\ Len(Stored) > 0
    /\ args.startDate.given
    /\ reply.total = 0
    /\ reply.avgResponseTime = Num(0)

-----------------------------------------------------------------------------
(* C22 *)

\* The clock hour (in UTC, counted from the day the log begins on) the
\* timestamp ts lies in.
ClockHour(ts) == Instant(ts) \div 60

\* C22: grouping by hour never splits two records whose timestamps lie in
\* the same clock hour, and the records of 10:15:00Z and 10:45:00Z are in the
\* group labelled "10:00".
C22_SameHourSameGroup ==
    Analyzed /\ reply.groupBy = "hour" =>
        /\ Cardinality(DOMAIN reply.groups) <=
              Cardinality({ ClockHour(Stored[i].timestamp) : i \in InRange })
        /\ LET ten == { i \in InRange : ClockHour(Stored[i].timestamp) = 10 } IN
           ten # {} =>
              /\ "10:00" \in DOMAIN reply.groups
              /\ reply.groups["10:00"].count >= Cardinality(ten)

-----------------------------------------------------------------------------
(* C23 *)

\* The send of the tool call has ended: it returned an outcome, or it threw.
SendReturned == send.state = "settled" /\ send.result.kind = "return"
SendThrew == send.state = "settled" /\ send.result.kind = "throw"

\* The words by which the handler of each tool names its operation.
FailedOperation ==
    [ ask_yes_no |-> "Elicitation request failed:",
      confirm_action |-> "Confirmation request failed:",
      clarify_intent |-> "Clarification request failed:",
      verify_understanding |-> "Understanding verification failed:",
      collect_rating |-> "Rating collection failed:",
      elicit_custom |-> "Custom elicitation failed:" ]

\* The text reports what a user did.
ReportsUser(text) ==
    \E i \in 1 .. Len(text) :
        text[i] \in { "User accepted", "User declineed", "User canceled",
                      "User confirmed", "User declined", "User answered:",
                      "User clarification:", "User rating for",
                      "Understanding verification result:",
                      "Custom elicitation completed:" }

\* C23: for each of the six elicitation tools, a send that fails (timeout or
\* transport error) makes the tool call answer with isError set and a text
\* that names the operation that failed and carries the error; the failure is
\* never reported as an accept, decline or cancel of the user; an outcome the
\* channel delivered, decline and cancel included, is never answered with
\* isError.
C23_FailureIsAnErrorResponse ==
    /\ SendThrew =>
          /\ reply.tool = call.tool
          /\ reply.isError
          /\ reply.text[1] = FailedOperation[call.tool]
          /\ \E m \in ChannelErrors : reply.text[2] = ElicitationFailed(m).message
          /\ ~ReportsUser(reply.text)
    /\ SendReturned =>
          /\ reply.tool = call.tool
          /\ ~reply.isError
          /\ ReportsUser(reply.text)

\* The send of a clarify_intent call timed out and the call answered with an
\* error response.
C23_Witness ==
    /\ SendThrew
    /\ call.tool = "clarify_intent"
    /\ send.result = ElicitationFailed(ErrTimeout)
    /\ reply.isError

-----------------------------------------------------------------------------
(* C24 *)

\* C24: there is no retry: a tool call calls sendElicitationRequest at most
\* once, and each call of sendElicitationRequest calls server.request exactly
\* once, whether the request resolves, times out or fails.
C24_NoRetry ==
    /\ send.calls <= 1
    /\ send.requests = send.calls
    /\ send.state # "none" => send.requests = 1

\* A send that timed out has called the channel once.
C24_Witness ==
    /\ SendThrew
    /\ send.result = ElicitationFailed(ErrTimeout)
    /\ send.requests = 1

-----------------------------------------------------------------------------
(* C25 *)

\* C25: every request a tool hands to sendElicitationRequest is well formed:
\* each name listed in requestedSchema.required is a key of
\* requestedSchema.properties, whatever the arguments of the tool.
C25_RequiredFieldsAreProperties ==
    Handled =>
        call.params.requestedSchema.required \subseteq
            call.params.requestedSchema.properties

-----------------------------------------------------------------------------
(* C26 *)

\* Transaction t is between the start of sendElicitationRequest and its end.
InFlight(t) == pc[t] \notin {"idle", "done"}

\* A call that awaits the channel suspends no other call: whatever the other
\* calls await, each call in flight has a step it can take.
OnlyOwnTransactionSuspended ==
    \A t \in Txn : InFlight(t) => ENABLED (ChannelSettles(t) \/ Continues(t))

-----------------------------------------------------------------------------
(* C27 *)

\* The text says that the user confirmed.
SaysUserConfirmed(text) ==
    \E i \in 1 .. Len(text) : text[i] = "User confirmed"

\* C27: confirm_action answers "User confirmed the action" only when the
\* outcome of the channel has action accept and a content whose confirmed is
\* true; for decline, cancel, an accept without content, an accept whose
\* confirmed is not true and a failed send, the answer never says so.
C27_ConfirmedOnlyOnAcceptWithTrue ==
    call.tool = "confirm_action" /\ send.state = "settled" =>
        ( SaysUserConfirmed(reply.text) =>
            /\ send.result.kind = "return"
            /\ send.result.value.action = "accept"
            /\ HasContent(send.result.value)
            /\ Get(send.result.value.content, "confirmed") = Bool(TRUE) )

-----------------------------------------------------------------------------
(* C28 *)

\* C28: over a log of entries as sendElicitationRequest writes them, the
\* timed-out count of analyze_logs is at most its failure count, and every
\* entry that search_logs finds with timedOut = true has success false: a
\* success is never counted or found as timed out.
C28_TimedOutIsAFailure ==
    /\ Analyzed => reply.timedOutCount <= reply.failureCount
    /\ Searched /\ args.timedOut = Some(TRUE) =>
          \A i \in 1 .. Len(reply.entries) : ~reply.entries[i].success

\* A log that holds successes and a timeout: analyze_logs counted one timeout
\* among two or more entries.
C28_Witness ==
    /\ Analyzed
    /\ reply.timedOutCount = 1
    /\ reply.successCount >= 1
    /\ reply.failureCount >= 1

-----------------------------------------------------------------------------
(* C29 *)

RECURSIVE SumOfCounts(_, _)
\* The sum of the counts of the groups of the keys `keys`.
SumOfCounts(groups, keys) ==
    IF keys = {} THEN 0
    ELSE LET k == CHOOSE x \in keys : TRUE
         IN  groups[k].count + SumOfCounts(groups, keys \ {k})

\* C29: the groups partition the records within the dates given: each record
\* is counted in the group of its key and in no other, the counts of the
\* groups sum to the total of the overall statistics, no group is empty (so
\* that no rate or average of a group divides by zero), and a groupBy other
\* than confirmationType, success, hour and day puts every record in one
\* group.
C29_GroupsPartitionRecords ==
    Analyzed =>
        /\ \A i \in InRange :
              GroupKey(Stored[i], reply.groupBy, tz) \in DOMAIN reply.groups
        /\ \A k \in DOMAIN reply.groups :
              /\ reply.groups[k].count =
                    Cardinality({ i \in InRange :
                                    GroupKey(Stored[i], reply.groupBy, tz) = k })
              /\ reply.groups[k].count > 0
              /\ ~reply.groups[k].successRate.nan
              /\ ~reply.groups[k].avgTime.nan
        /\ SumOfCounts(reply.groups, DOMAIN reply.groups) = reply.total
        /\ reply.groupBy \notin {"confirmationType", "success", "hour", "day"} =>
              Cardinality(DOMAIN reply.groups) <= 1

\* Three records were grouped by success into two groups.
C29_Witness ==
    /\ Analyzed
    /\ reply.groupBy = "success"
    /\ reply.total = 3
    /\ Cardinality(DOMAIN reply.groups) = 2

-----------------------------------------------------------------------------
(* C30 *)

\* Every call that was started has ended, and the appendFile of each of them
\* succeeded.
AllAppended ==
    /\ Quiescent
    /\ \A t \in Txn : pc[t] = "done" => io[t].append = "ok"

\* C30: after any sends whose appends succeeded, reading the log gives
\* exactly the records that were written: one for each append, in the order
\* of the appends in the file, each equal in every field to the entry that
\* was handed to logConfirmation.
C30_ReadBackIsWhatWasWritten ==
    AllAppended =>
        LET read == readLogEntries(OnDisk(file)) IN
        /\ read.ok
        /\ Len(read.entries) = Cardinality({ t \in Txn : pc[t] = "done" })
        /\ \A t \in Txn : pc[t] = "done" =>
              \E i \in 1 .. Len(read.entries) :
                 /\ read.entries[i] = entry[t]
                 /\ Lines(file)[i][1].txn = t

====
